---- MODULE Spec2Model ----
(***************************************************************************)
(* Model of the streaming transport (StreamClient) and of the job polling  *)
(* helper (JobClient) of n8n-nodes-render.                                 *)
(*                                                                         *)
(* StreamClient: one object whose fields are ws, isConnected,              *)
(* reconnectAttempts, shouldReconnect, subscriptions, handlers and         *)
(* globalHandlers.  Every WebSocket the object ever created keeps its four *)
(* listeners, which close over the object, so a socket that is no longer   *)
(* this.ws still changes the object when it emits an event.                *)
(***************************************************************************)
EXTENDS Integers, Sequences, FiniteSets, TLC

VARIABLES
    config,             \* this.config after the constructor
    ws,                 \* this.ws: NoSocket (null) or the id of a socket
    sockets,            \* readyState of every WebSocket created by connect()
    isConnected,        \* this.isConnected
    reconnectAttempts,  \* this.reconnectAttempts
    shouldReconnect,    \* this.shouldReconnect
    subscriptions,      \* this.subscriptions, a Set in insertion order
    timers,             \* number of pending setTimeout reconnect callbacks
    wanted,             \* history: channels asked for and not removed since
    disconnectCalled,   \* history: disconnect() has been called
    lastOp,             \* observation: the operation or event of the last step
    lastSock,           \* observation: the socket whose event the last step handled
    sent,               \* observation: ws.send calls made by the last step
    threw,              \* observation: the last step ended with an exception
    prevAttempts,       \* observation: reconnectAttempts before the last step
    streamType,         \* history: the streamType of the caller's last connect()
    endpoint,           \* observation: the address of the last new WebSocket
    handlers,           \* this.handlers: for every event type a Set in insertion order
    globalHandlers,     \* this.globalHandlers, a Set in insertion order
    dPhase,             \* handleEvent: "idle", or the loop it is in ("typed", "global")
    dEvent,             \* handleEvent: the type of the event being dispatched
    dCursor,            \* handleEvent: position of the iterator of the loop it is in
    invoked,            \* observation: handler calls made for the last event, in order
    lastThrow,          \* observation: the latest of these calls that threw, or 0
    aborted,            \* observation: an exception left handleEvent
    dropped,            \* observation: the last message was dropped by the listener
    startTyped,         \* history: handlers of the event's type when dispatch began
    startGlobal,        \* history: subscribeAll handlers when dispatch began
    owedTyped,          \* history: of startTyped, neither called nor removed yet
    owedGlobal,         \* history: of startGlobal, neither called nor removed yet
    effects,            \* history: handler calls of this dispatch that called the client
    lastPure,           \* observation: the handler called last called nothing of the client
    startOrder,         \* history: both registries, in order, when dispatch began
    lastArgs,           \* observation: arguments of the registry call of the last step
    options,            \* waitForCompletion: the options it was called with
    pc,                 \* waitForCompletion: "request", "sleep" (its awaits) or "done"
    now,                \* Date.now() - startTime
    log,                \* history: what waitForCompletion did, and the answers it got
    result,             \* what waitForCompletion returned
    elapsedFirst,       \* history: timeout passed before a poll reported a final status
    call,               \* the JobClient operation called last, with its arguments
    requests,           \* observation: the requests that call made of the api client
    ret                 \* what that call returned

streamVars == <<config, ws, sockets, isConnected, reconnectAttempts,
                shouldReconnect, subscriptions, timers, wanted,
                disconnectCalled, lastOp, lastSock, sent, threw, prevAttempts,
                streamType, endpoint>>

dispatchVars == <<handlers, globalHandlers, dPhase, dEvent, dCursor, invoked,
                  lastThrow, aborted, dropped, startTyped, startGlobal,
                  owedTyped, owedGlobal, effects, lastPure, startOrder,
                  lastArgs>>

waitVars == <<options, pc, now, log, result, elapsedFirst>>

callVars == <<call, requests, ret>>

vars == <<streamVars, dispatchVars, waitVars, callVars>>

----------------------------------------------------------------------------
(* Bounds and input sets *)

\* Sockets that have not emitted close yet, plus pending reconnect timers:
\* under Spec and under SpecChannels.
MaxLive == 2
MaxLiveChannels == 2

\* Handler calls of one dispatch that call back into the client.
MaxEffects == 1

Max(a, b) == IF a >= b THEN a ELSE b

NoSocket == 0
SocketIds == 1..(Max(MaxLive, MaxLiveChannels) + 1)

JobIds == {"j1"}
NodeIds == {"n1"}
Addresses == {"a1"}

\* maxReconnectAttempts as the caller may pass it; Omitted is a caller that
\* passes none.
Omitted == -1
GivenMaxAttempts == {Omitted, 0, 1, 2}
GivenMaxAttemptsChannels == {1}

\* Under SpecDispatch.
EventTypes == {"job:completed", "job:failed"}
Handlers == {"h1", "h2"}

DefaultMaxReconnectAttempts == 10

----------------------------------------------------------------------------
(* Set<T> of JavaScript: membership with insertion order *)

SeqToSet(s) == {s[i] : i \in 1..Len(s)}

\* An add that does not look whether the entry is there.
SetAddAgain(s, x) == Append(s, x)

SetAdd(s, x) == IF x \in SeqToSet(s) THEN s ELSE Append(s, x)

SetDelete(s, x) == SelectSeq(s, LAMBDA y : y # x)

----------------------------------------------------------------------------
(* Channel names *)

JobChannel(jobId) == "job:" \o jobId
NodeChannel(nodeId) == "node:" \o nodeId
WalletChannel(address) == "wallet:" \o address
NetworkStatsChannel == "network:stats"

----------------------------------------------------------------------------
(* constructor *)

\* config.endpoint of a caller that passes none.
NoEndpoint == "none"

\* WEBSOCKET_ENDPOINTS
StreamTypes == {"jobs", "nodes", "network"}

WEBSOCKET_ENDPOINTS ==
    [t \in StreamTypes |-> "wss://stream.rendernetwork.com/" \o t]

\* The default of the parameter of connect().
DefaultStreamType == "jobs"

\* const endpoint = this.config.endpoint || WEBSOCKET_ENDPOINTS[streamType]
Endpoint(type) ==
    IF config.endpoint # NoEndpoint THEN config.endpoint ELSE WEBSOCKET_ENDPOINTS[type]

ConstructorWith(givenReconnect, givenMax, givenEndpoint) ==
    [reconnect |-> givenReconnect,
     endpoint |-> givenEndpoint,
     maxReconnectAttempts |->
        IF givenMax = Omitted THEN DefaultMaxReconnectAttempts ELSE givenMax]

\* A caller that passes no endpoint.
Constructor(givenReconnect, givenMax) ==
    ConstructorWith(givenReconnect, givenMax, NoEndpoint)

InitStreamWith(givenReconnect, givenMax, givenEndpoint) ==
    /\ \E r \in givenReconnect, m \in givenMax, e \in givenEndpoint :
            config = ConstructorWith(r, m, e)
    /\ ws = NoSocket
    /\ sockets = [s \in SocketIds |-> "free"]
    /\ isConnected = FALSE
    /\ reconnectAttempts = 0
    /\ shouldReconnect = TRUE
    /\ subscriptions = <<>>
    /\ timers = 0
    /\ wanted = {}
    /\ disconnectCalled = FALSE
    /\ lastOp = "new"
    /\ lastSock = NoSocket
    /\ sent = <<>>
    /\ threw = FALSE
    /\ prevAttempts = 0
    /\ streamType = "none"
    /\ endpoint = NoEndpoint

InitStream(givenReconnect, givenMax) ==
    InitStreamWith(givenReconnect, givenMax, {NoEndpoint})

NoEvent == "none"
NoEffect == [op |-> "none"]
NoOrder == [typed |-> <<>>, global |-> <<>>]
NoArgs == [type |-> "none", h |-> "none"]

InitDispatch ==
    /\ handlers = [t \in EventTypes |-> <<>>]
    /\ globalHandlers = <<>>
    /\ dPhase = "idle"
    /\ dEvent = NoEvent
    /\ dCursor = 0
    /\ invoked = <<>>
    /\ lastThrow = 0
    /\ aborted = FALSE
    /\ dropped = FALSE
    /\ startTyped = {}
    /\ startGlobal = {}
    /\ owedTyped = {}
    /\ owedGlobal = {}
    /\ effects = 0
    /\ lastPure = TRUE
    /\ startOrder = NoOrder
    /\ lastArgs = NoArgs

NoJob == [id |-> "none", status |-> "none", progress |-> 0]
NoError == "undefined"
NoResult == [success |-> FALSE, job |-> NoJob, error |-> "pending", thrown |-> FALSE]

\* No waitForCompletion call.
InitNoWait ==
    /\ options = [pollInterval |-> 0, timeout |-> 0, onProgress |-> FALSE]
    /\ pc = "none"
    /\ now = 0
    /\ log = <<>>
    /\ result = NoResult
    /\ elapsedFirst = FALSE

NoCall == [op |-> "none"]

\* No call of a JobClient operation.
InitNoCall ==
    /\ call = NoCall
    /\ requests = <<>>
    /\ ret = NoCall

Init ==
    InitStream(BOOLEAN, GivenMaxAttempts) /\ InitDispatch /\ InitNoWait /\ InitNoCall

InitChannels ==
    /\ InitStream(BOOLEAN, GivenMaxAttemptsChannels)
    /\ InitDispatch /\ InitNoWait /\ InitNoCall

\* A client whose first connect() has resolved: its socket has signalled
\* open, nothing has been subscribed yet.
InitHandlers ==
    /\ \E r \in BOOLEAN, m \in GivenMaxAttemptsChannels : config = Constructor(r, m)
    /\ ws = 1
    /\ sockets = [s \in SocketIds |-> IF s = 1 THEN "open" ELSE "free"]
    /\ isConnected = TRUE
    /\ reconnectAttempts = 0
    /\ shouldReconnect = TRUE
    /\ subscriptions = <<>>
    /\ timers = 0
    /\ wanted = {}
    /\ disconnectCalled = FALSE
    /\ lastOp = "open"
    /\ lastSock = 1
    /\ sent = <<>>
    /\ threw = FALSE
    /\ prevAttempts = 0
    /\ streamType = DefaultStreamType
    /\ endpoint = WEBSOCKET_ENDPOINTS[DefaultStreamType]
    /\ InitDispatch
    /\ InitNoWait
    /\ InitNoCall

----------------------------------------------------------------------------
(* Sockets (the ws library, as far as the client depends on it) *)

\* A socket that has emitted close emits nothing more; its id is reused once
\* this.ws no longer refers to it.
Collect(socks, w) ==
    [s \in SocketIds |-> IF socks[s] = "closed" /\ s # w THEN "free" ELSE socks[s]]

FreeIds == {s \in SocketIds : sockets[s] = "free"}

NewSocketId == CHOOSE s \in FreeIds : \A t \in FreeIds : s <= t

\* Sockets that can still emit an event.
Live == {s \in SocketIds : sockets[s] \in {"connecting", "open", "closing"}}

\* ws.close(): a socket that is connecting or open starts closing and emits
\* close later; on a closing or closed socket it does nothing.
WsClose(socks, s) ==
    IF socks[s] \in {"connecting", "open"} THEN [socks EXCEPT ![s] = "closing"] ELSE socks

Directive(type, channel) == [type |-> type, channel |-> channel]

\* send(data): the calls of ws.send it makes, and whether ws.send threw
\* (ws.send throws on a socket that is still connecting).
Send(w, connected, socks, data) ==
    IF w # NoSocket /\ connected
    THEN IF socks[w] = "connecting"
         THEN [calls |-> <<>>, threw |-> TRUE]
         ELSE [calls |-> <<[sock |-> w, data |-> data]>>, threw |-> FALSE]
    ELSE [calls |-> <<>>, threw |-> FALSE]

\* for (const sub of subs) this.send({type: 'subscribe', channel: sub})
RECURSIVE Resubscribe(_, _, _, _)
Resubscribe(subs, w, connected, socks) ==
    IF subs = <<>> THEN [calls |-> <<>>, threw |-> FALSE]
    ELSE LET first == Send(w, connected, socks, Directive("subscribe", Head(subs)))
         IN  IF first.threw THEN first
             ELSE LET rest == Resubscribe(Tail(subs), w, connected, socks)
                  IN  [calls |-> first.calls \o rest.calls, threw |-> rest.threw]

Observe(op, sock, calls, t) ==
    /\ lastOp' = op
    /\ lastSock' = sock
    /\ sent' = calls
    /\ threw' = t
    /\ prevAttempts' = reconnectAttempts
    /\ lastArgs' = NoArgs
    /\ op \notin {"connect", "reconnect"} => UNCHANGED <<streamType, endpoint>>

\* The same for a call of subscribe, subscribeAll, unsubscribe, unsubscribeAll.
ObserveCall(op, type, handler) ==
    /\ lastOp' = op
    /\ lastSock' = NoSocket
    /\ sent' = <<>>
    /\ threw' = FALSE
    /\ prevAttempts' = reconnectAttempts
    /\ lastArgs' = [type |-> type, h |-> handler]
    /\ UNCHANGED <<streamType, endpoint>>

\* A step outside handleEvent: nothing is being dispatched.
NoDispatch ==
    /\ UNCHANGED <<waitVars, callVars>>
    /\ dPhase = "idle"
    /\ dPhase' = "idle"
    /\ dEvent' = NoEvent
    /\ dCursor' = 0
    /\ invoked' = <<>>
    /\ lastThrow' = 0
    /\ aborted' = FALSE
    /\ dropped' = FALSE
    /\ startTyped' = {}
    /\ startGlobal' = {}
    /\ owedTyped' = {}
    /\ owedGlobal' = {}
    /\ effects' = 0
    /\ lastPure' = TRUE
    /\ startOrder' = NoOrder

----------------------------------------------------------------------------
(* connect, its four listeners, disconnect *)

\* The body of connect(): new WebSocket(...) assigned to this.ws.
OpenSocket(op, type) ==
    /\ FreeIds # {}
    /\ ws' = NewSocketId
    /\ endpoint' = Endpoint(type)
    /\ streamType' = IF op = "connect" THEN type ELSE streamType
    /\ sockets' = Collect([sockets EXCEPT ![NewSocketId] = "connecting"], NewSocketId)
    /\ Observe(op, NoSocket, <<>>, FALSE)
    /\ UNCHANGED <<config, isConnected, reconnectAttempts, shouldReconnect,
                   subscriptions, wanted, disconnectCalled>>
    /\ NoDispatch
    /\ UNCHANGED <<handlers, globalHandlers>>

\* A connect() that enables reconnection again.
ConnectRearms(limit) ==
    /\ Cardinality(Live) + timers < limit
    /\ FreeIds # {}
    /\ ws' = NewSocketId
    /\ sockets' = Collect([sockets EXCEPT ![NewSocketId] = "connecting"], NewSocketId)
    /\ shouldReconnect' = TRUE
    /\ endpoint' = Endpoint(DefaultStreamType)
    /\ streamType' = DefaultStreamType
    /\ Observe("connect", NoSocket, <<>>, FALSE)
    /\ UNCHANGED <<config, isConnected, reconnectAttempts, subscriptions, wanted,
                   disconnectCalled, timers>>
    /\ NoDispatch
    /\ UNCHANGED <<handlers, globalHandlers>>

\* connect(streamType) called by the user of the client.
ConnectTo(type, limit) ==
    /\ Cardinality(Live) + timers < limit
    /\ OpenSocket("connect", type)
    /\ UNCHANGED timers

\* connect()
Connect(limit) == ConnectTo(DefaultStreamType, limit)

\* OnOpen without the reset of the attempt counter.
OnOpenKeepsAttempts(s) ==
    /\ sockets[s] = "connecting"
    /\ sockets' = [sockets EXCEPT ![s] = "open"]
    /\ isConnected' = TRUE
    /\ LET r == Resubscribe(subscriptions, ws, TRUE, sockets')
       IN  Observe("open", s, r.calls, r.threw)
    /\ UNCHANGED <<config, ws, shouldReconnect, subscriptions, timers, wanted,
                   disconnectCalled, reconnectAttempts>>
    /\ NoDispatch
    /\ UNCHANGED <<handlers, globalHandlers>>

\* ws.on('open')
OnOpen(s) ==
    /\ sockets[s] = "connecting"
    /\ sockets' = [sockets EXCEPT ![s] = "open"]
    /\ isConnected' = TRUE
    /\ reconnectAttempts' = 0
    /\ LET r == Resubscribe(subscriptions, ws, TRUE, sockets')
       IN  Observe("open", s, r.calls, r.threw)
    /\ UNCHANGED <<config, ws, shouldReconnect, subscriptions, timers, wanted,
                   disconnectCalled>>
    /\ NoDispatch
    /\ UNCHANGED <<handlers, globalHandlers>>

MaxAttempts == IF config.maxReconnectAttempts = 0
               THEN DefaultMaxReconnectAttempts
               ELSE config.maxReconnectAttempts

\* handleDisconnect without the test of shouldReconnect.
HandleDisconnectIgnoresFlag ==
    IF ~config.reconnect THEN FALSE
    ELSE reconnectAttempts < MaxAttempts

\* handleDisconnect(): TRUE when it schedules a reconnect.
HandleDisconnect ==
    IF ~shouldReconnect \/ ~config.reconnect THEN FALSE
    ELSE reconnectAttempts < MaxAttempts

\* A close listener that reconnects only after a socket that had opened.
OnCloseOfOpened(s) ==
    /\ sockets[s] \in {"connecting", "open", "closing"}
    /\ sockets' = Collect([sockets EXCEPT ![s] = "closed"], ws)
    /\ isConnected' = FALSE
    /\ IF HandleDisconnect /\ sockets[s] # "connecting"
       THEN /\ reconnectAttempts' = reconnectAttempts + 1
            /\ timers' = timers + 1
       ELSE UNCHANGED <<reconnectAttempts, timers>>
    /\ Observe("close", s, <<>>, FALSE)
    /\ UNCHANGED <<config, ws, shouldReconnect, subscriptions, wanted,
                   disconnectCalled>>
    /\ NoDispatch
    /\ UNCHANGED <<handlers, globalHandlers>>

\* ws.on('close'): of a socket that failed to connect, that was dropped, or
\* that was closed by disconnect().
OnClose(s) ==
    /\ sockets[s] \in {"connecting", "open", "closing"}
    /\ sockets' = Collect([sockets EXCEPT ![s] = "closed"], ws)
    /\ isConnected' = FALSE
    /\ IF HandleDisconnect
       THEN /\ reconnectAttempts' = reconnectAttempts + 1
            /\ timers' = timers + 1
       ELSE UNCHANGED <<reconnectAttempts, timers>>
    /\ Observe("close", s, <<>>, FALSE)
    /\ UNCHANGED <<config, ws, shouldReconnect, subscriptions, wanted,
                   disconnectCalled>>
    /\ NoDispatch
    /\ UNCHANGED <<handlers, globalHandlers>>

\* A callback that connects nothing.
ReconnectTimerIdle ==
    /\ timers > 0
    /\ timers' = timers - 1
    /\ Observe("reconnect", NoSocket, <<>>, FALSE)
    /\ UNCHANGED <<streamType, endpoint>>
    /\ UNCHANGED <<config, ws, sockets, isConnected, reconnectAttempts, shouldReconnect,
                   subscriptions, wanted, disconnectCalled>>
    /\ NoDispatch
    /\ UNCHANGED <<handlers, globalHandlers>>

\* The setTimeout callback of handleDisconnect: this.connect().
ReconnectTimer ==
    /\ timers > 0
    /\ timers' = timers - 1
    /\ OpenSocket("reconnect", DefaultStreamType)

Disconnect ==
    /\ shouldReconnect' = FALSE
    /\ ws' = NoSocket
    /\ sockets' = Collect(IF ws # NoSocket THEN WsClose(sockets, ws) ELSE sockets, NoSocket)
    /\ isConnected' = FALSE
    /\ disconnectCalled' = TRUE
    /\ Observe("disconnect", NoSocket, <<>>, FALSE)
    /\ UNCHANGED <<config, reconnectAttempts, subscriptions, timers, wanted>>
    /\ NoDispatch
    /\ UNCHANGED <<handlers, globalHandlers>>

----------------------------------------------------------------------------
(* Channel subscriptions *)

AddChannel(op, channel) ==
    /\ subscriptions' = SetAdd(subscriptions, channel)
    /\ wanted' = wanted \cup {channel}
    /\ LET r == IF isConnected
                THEN Send(ws, isConnected, sockets, Directive("subscribe", channel))
                ELSE [calls |-> <<>>, threw |-> FALSE]
       IN  Observe(op, NoSocket, r.calls, r.threw)
    /\ UNCHANGED <<config, ws, sockets, isConnected, reconnectAttempts,
                   shouldReconnect, timers, disconnectCalled>>
    /\ NoDispatch
    /\ UNCHANGED <<handlers, globalHandlers>>

SubscribeToJob(jobId) == AddChannel("subscribeToJob", JobChannel(jobId))

\* unsubscribeFromJob that sends the directive but keeps the channel.
UnsubscribeFromJobKeepsChannel(jobId) ==
    /\ wanted' = wanted \ {JobChannel(jobId)}
    /\ LET r == IF isConnected
                THEN Send(ws, isConnected, sockets,
                          Directive("unsubscribe", JobChannel(jobId)))
                ELSE [calls |-> <<>>, threw |-> FALSE]
       IN  Observe("unsubscribeFromJob", NoSocket, r.calls, r.threw)
    /\ UNCHANGED <<config, ws, sockets, isConnected, reconnectAttempts,
                   shouldReconnect, timers, disconnectCalled, subscriptions>>
    /\ NoDispatch
    /\ UNCHANGED <<handlers, globalHandlers>>

UnsubscribeFromJob(jobId) ==
    /\ subscriptions' = SetDelete(subscriptions, JobChannel(jobId))
    /\ wanted' = wanted \ {JobChannel(jobId)}
    /\ LET r == IF isConnected
                THEN Send(ws, isConnected, sockets,
                          Directive("unsubscribe", JobChannel(jobId)))
                ELSE [calls |-> <<>>, threw |-> FALSE]
       IN  Observe("unsubscribeFromJob", NoSocket, r.calls, r.threw)
    /\ UNCHANGED <<config, ws, sockets, isConnected, reconnectAttempts,
                   shouldReconnect, timers, disconnectCalled>>
    /\ NoDispatch
    /\ UNCHANGED <<handlers, globalHandlers>>

SubscribeToNode(nodeId) == AddChannel("subscribeToNode", NodeChannel(nodeId))

SubscribeToWallet(address) == AddChannel("subscribeToWallet", WalletChannel(address))

SubscribeToNetworkStats == AddChannel("subscribeToNetworkStats", NetworkStatsChannel)

IsActive == isConnected

----------------------------------------------------------------------------
(* Handler registries *)

\* The place of an entry deleted from a Set while the Set is being iterated:
\* the iterator steps over it, and an entry added later comes after it.
Empty == "empty"

Entries(list) == SelectSeq(list, LAMBDA h : h # Empty)

Members(list) == SeqToSet(list) \ {Empty}

\* Set.delete while handleEvent runs.
DeleteInPlace(list, h) ==
    [i \in 1..Len(list) |-> IF list[i] = h THEN Empty ELSE list[i]]

\* Next position of a Set iterator that has visited the entries up to cursor;
\* 0 when the iteration is over.
NextIndex(list, cursor) ==
    LET ahead == {i \in (cursor + 1)..Len(list) : list[i] # Empty}
    IN  IF ahead = {} THEN 0 ELSE CHOOSE i \in ahead : \A j \in ahead : i <= j

StreamUnchanged ==
    UNCHANGED <<config, ws, sockets, isConnected, reconnectAttempts,
                shouldReconnect, subscriptions, timers, wanted, disconnectCalled>>

Subscribe(eventType, handler) ==
    /\ handlers' = [handlers EXCEPT ![eventType] = SetAdd(@, handler)]
    /\ ObserveCall("subscribe", eventType, handler)
    /\ NoDispatch
    /\ StreamUnchanged
    /\ UNCHANGED globalHandlers

SubscribeAll(handler) ==
    /\ globalHandlers' = SetAdd(globalHandlers, handler)
    /\ ObserveCall("subscribeAll", "all", handler)
    /\ NoDispatch
    /\ StreamUnchanged
    /\ UNCHANGED handlers

Unsubscribe(eventType, handler) ==
    /\ handlers' = [handlers EXCEPT ![eventType] = SetDelete(@, handler)]
    /\ ObserveCall("unsubscribe", eventType, handler)
    /\ NoDispatch
    /\ StreamUnchanged
    /\ UNCHANGED globalHandlers

UnsubscribeAll(handler) ==
    /\ globalHandlers' = SetDelete(globalHandlers, handler)
    /\ ObserveCall("unsubscribeAll", "all", handler)
    /\ NoDispatch
    /\ StreamUnchanged
    /\ UNCHANGED handlers

----------------------------------------------------------------------------
(* The message listener and handleEvent *)

\* Raw messages: text that is not JSON, the JSON text null, a JSON object
\* without a known type, and an event of each type.
RawMessages == {"garbage", "null", "untyped"} \cup EventTypes

\* A parser that takes any text.
ParseAccepts(raw) == FALSE

\* JSON.parse(data.toString()) throws on text that is not JSON.
ParseThrows(raw) == raw = "garbage"

\* event.type of handleEvent throws when the parsed value is null.
TypeThrows(raw) == raw = "null"

\* this.handlers.get(event.type), nothing for a type without handlers.
TypedHandlers(hs, raw) == IF raw \in EventTypes THEN hs[raw] ELSE <<>>

\* What a handler may do to the client while it runs.
Effects ==
    {NoEffect}
    \cup {[op |-> o, type |-> t, h |-> h] :
            o \in {"subscribe", "unsubscribe"}, t \in EventTypes, h \in Handlers}
    \cup {[op |-> o, h |-> h] : o \in {"subscribeAll", "unsubscribeAll"}, h \in Handlers}

EffectOnHandlers(e) ==
    IF e.op = "subscribe" THEN [handlers EXCEPT ![e.type] = SetAdd(@, e.h)]
    ELSE IF e.op = "unsubscribe" THEN [handlers EXCEPT ![e.type] = DeleteInPlace(@, e.h)]
    ELSE handlers

EffectOnGlobal(e) ==
    IF e.op = "subscribeAll" THEN SetAdd(globalHandlers, e.h)
    ELSE IF e.op = "unsubscribeAll" THEN DeleteInPlace(globalHandlers, e.h)
    ELSE globalHandlers

\* Where handleEvent stands once the handler at position cursor of the loop
\* phase has returned, the registries being hs and gs.
Position(phase, cursor, hs, gs, raw) ==
    IF phase = "typed" /\ NextIndex(TypedHandlers(hs, raw), cursor) # 0
    THEN [phase |-> "typed", cursor |-> cursor]
    ELSE IF phase = "typed"
         THEN IF NextIndex(gs, 0) # 0
              THEN [phase |-> "global", cursor |-> 0]
              ELSE [phase |-> "idle", cursor |-> 0]
         ELSE IF NextIndex(gs, cursor) # 0
              THEN [phase |-> "global", cursor |-> cursor]
              ELSE [phase |-> "idle", cursor |-> 0]

\* The registries when handleEvent has returned or stands at pos.
Settle(pos, hs, gs) ==
    /\ dPhase' = pos.phase
    /\ dCursor' = pos.cursor
    /\ handlers' = IF pos.phase = "idle" THEN [t \in EventTypes |-> Entries(hs[t])] ELSE hs
    /\ globalHandlers' = IF pos.phase = "idle" THEN Entries(gs) ELSE gs

\* ws.on('message'): parse, then handleEvent up to its first handler call.
OnMessage(s, raw) ==
    /\ dPhase = "idle"
    /\ sockets[s] \in {"open", "closing"}
    /\ Observe("message", s, <<>>, FALSE)
    /\ StreamUnchanged
    /\ UNCHANGED <<waitVars, callVars>>
    /\ dEvent' = raw
    /\ invoked' = <<>>
    /\ lastThrow' = 0
    /\ effects' = 0
    /\ lastPure' = TRUE
    /\ IF ParseThrows(raw) \/ TypeThrows(raw)
       THEN /\ dropped' = TRUE
            /\ aborted' = TypeThrows(raw)
            /\ startTyped' = {}
            /\ startGlobal' = {}
            /\ owedTyped' = {}
            /\ owedGlobal' = {}
            /\ startOrder' = NoOrder
            /\ UNCHANGED <<dPhase, dCursor, handlers, globalHandlers>>
       ELSE /\ dropped' = FALSE
            /\ aborted' = FALSE
            /\ startTyped' = Members(TypedHandlers(handlers, raw))
            /\ startGlobal' = Members(globalHandlers)
            /\ owedTyped' = Members(TypedHandlers(handlers, raw))
            /\ owedGlobal' = Members(globalHandlers)
            /\ startOrder' = [typed |-> TypedHandlers(handlers, raw),
                               global |-> globalHandlers]
            /\ Settle(Position("typed", 0, handlers, globalHandlers, raw),
                      handlers, globalHandlers)

\* A loop without try and catch around the handler call.
CaughtNothing(outcome) == outcome # "throw"

\* try { handler(event) } catch (error) { console.error(...) }: the loop goes on.
Caught(outcome) == TRUE

\* One turn of a loop of handleEvent: the call of the next handler, which
\* does e to the client and returns or throws, and the step of the iterator.
InvokeHandler(e, outcome) ==
    /\ dPhase \in {"typed", "global"}
    /\ e # NoEffect => effects < MaxEffects
    /\ effects' = IF e # NoEffect THEN effects + 1 ELSE effects
    /\ LET list == IF dPhase = "typed" THEN TypedHandlers(handlers, dEvent)
                   ELSE globalHandlers
           i == NextIndex(list, dCursor)
           hs == EffectOnHandlers(e)
           gs == EffectOnGlobal(e)
       IN  /\ invoked' = Append(invoked, [h |-> list[i], loop |-> dPhase])
           /\ lastThrow' = IF outcome = "throw" THEN Len(invoked) + 1 ELSE lastThrow
           /\ owedTyped' = (owedTyped \ (IF dPhase = "typed" THEN {list[i]} ELSE {}))
                            \ (IF e.op = "unsubscribe" /\ e.type = dEvent THEN {e.h} ELSE {})
           /\ owedGlobal' = (owedGlobal \ (IF dPhase = "global" THEN {list[i]} ELSE {}))
                             \ (IF e.op = "unsubscribeAll" THEN {e.h} ELSE {})
           /\ IF Caught(outcome)
              THEN /\ Settle(Position(dPhase, i, hs, gs, dEvent), hs, gs)
                   /\ aborted' = FALSE
              ELSE /\ Settle([phase |-> "idle", cursor |-> 0], hs, gs)
                   /\ aborted' = TRUE
    /\ lastPure' = (e = NoEffect)
    /\ Observe("message", lastSock, <<>>, FALSE)
    /\ StreamUnchanged
    /\ UNCHANGED <<waitVars, callVars>>
    /\ UNCHANGED <<dEvent, dropped, startTyped, startGlobal, startOrder>>

----------------------------------------------------------------------------
(* JobClient.waitForCompletion *)

DefaultPollInterval == 5000
DefaultTimeout == 3600000

\* Options as the caller may pass them; 0 is also an option that is not given.
GivenPollIntervals == {0, 1, 2}
GivenTimeouts == {0, 2, 3}

\* Time a getJob request may take, and time a sleep may last beyond its delay.
Latencies == {0, 1, 3}
Overshoots == {0, 1}

\* getJob requests of one waitForCompletion call.
MaxPolls == 3

Job(status, progress) == [id |-> "job1", status |-> status, progress |-> progress]

\* Answers of apiClient.getJob: a job record, a failure, or success without data.
JobAnswers ==
    {[success |-> TRUE, hasData |-> TRUE, data |-> j, error |-> NoError] :
        j \in {Job("rendering", 50), Job("rendering", 80), Job("timeout", 50),
                Job("completed", 100), Job("failed", 80), Job("cancelled", 50)}}

ErrorAnswers ==
    {[success |-> FALSE, hasData |-> FALSE, data |-> NoJob, error |-> e] : e \in {"e1", "e2"}}

EmptyAnswer == [success |-> TRUE, hasData |-> FALSE, data |-> NoJob, error |-> NoError]

Answers == JobAnswers \cup ErrorAnswers \cup {EmptyAnswer}

\* A sleep of options.pollInterval as passed.
PollIntervalAsPassed == options.pollInterval

\* options?.pollInterval || 5000
PollInterval ==
    IF options.pollInterval = 0 THEN DefaultPollInterval ELSE options.pollInterval

\* options?.timeout || 3600000
Timeout == IF options.timeout = 0 THEN DefaultTimeout ELSE options.timeout

TimeoutError == "Job timeout exceeded"

Event(e, n, status) == [e |-> e, n |-> n, status |-> status]

Polls(lg) == Len(SelectSeq(lg, LAMBDA x : x.e = "getJob"))

\* A loop that still runs when exactly timeout has passed.
WithinTimeoutInclusive(elapsed) == elapsed <= Timeout

\* while (Date.now() - startTime < timeout)
WithinTimeout(elapsed) == elapsed < Timeout

\* The top of the loop when elapsed has passed since the call: the next
\* getJob request, or the return after the loop.
LoopTop(elapsed, lg) ==
    IF WithinTimeout(elapsed)
    THEN /\ Polls(lg) < MaxPolls
         /\ pc' = "request"
         /\ log' = lg \o <<Event("check", elapsed, "in"), Event("getJob", 0, "")>>
         /\ result' = NoResult
    ELSE /\ pc' = "done"
         /\ log' = lg \o <<Event("check", elapsed, "out"), Event("return", 0, "")>>
         /\ result' = [success |-> FALSE, job |-> NoJob, error |-> TimeoutError,
                       thrown |-> FALSE]

OthersUnchanged == UNCHANGED <<streamVars, dispatchVars, callVars>>

\* The call, up to its first await.
WaitForCompletion(pollInterval, timeout, onProgress) ==
    /\ pc = "none"
    /\ options' = [pollInterval |-> pollInterval, timeout |-> timeout,
                    onProgress |-> onProgress]
    /\ now' = 0
    /\ elapsedFirst' = FALSE
    /\ pc' = "request"
    /\ log' = <<Event("check", 0, "in"), Event("getJob", 0, "")>>
    /\ result' = NoResult
    /\ OthersUnchanged

\* A loop without the test of result.success.
RequestFailedIgnored(answer) == FALSE

\* if (!result.success)
RequestFailed(answer) == ~answer.success

\* A report that is made after the tests of job.status, when the loop goes on.
ReportProgressIfUnfinished(lg, job) ==
    IF options.onProgress /\ job.status \notin {"completed", "failed", "cancelled"}
    THEN Append(lg, Event("onProgress", job.progress, job.status))
    ELSE lg

\* if (options?.onProgress) options.onProgress({...}), before the tests of job.status
ReportProgress(lg, job) ==
    IF options.onProgress
    THEN Append(lg, Event("onProgress", job.progress, job.status))
    ELSE lg

\* Tests of job.status that take a failed job for a completed one.
VerdictFailedIsSuccess(job) ==
    IF job.status = "completed" \/ job.status = "failed" THEN "success"
    ELSE IF job.status = "cancelled" THEN "failure"
    ELSE "continue"

\* The tests of job.status after the report.
Verdict(job) ==
    IF job.status = "completed" THEN "success"
    ELSE IF job.status = "failed" \/ job.status = "cancelled" THEN "failure"
    ELSE "continue"

\* From the answer of getJob to the next await or to the return.
Answer(answer, latency) ==
    /\ pc = "request"
    /\ now' = now + latency
    /\ elapsedFirst' = (now' >= Timeout)
    /\ LET lg == Append(log, Event("answer", answer.data.progress,
                                    IF ~answer.success THEN "error:" \o answer.error
                                    ELSE IF ~answer.hasData THEN "no data"
                                    ELSE answer.data.status))
           job == answer.data
       IN  IF RequestFailed(answer)
           THEN /\ pc' = "done"
                /\ log' = Append(lg, Event("return", 0, ""))
                /\ result' = [success |-> FALSE, job |-> NoJob, error |-> answer.error,
                              thrown |-> FALSE]
           ELSE IF ~answer.hasData
           THEN \* job is undefined: reading job.id or job.status throws
                /\ pc' = "done"
                /\ log' = Append(lg, Event("throw", 0, ""))
                /\ result' = [NoResult EXCEPT !.thrown = TRUE, !.error = "TypeError"]
           ELSE LET reported == ReportProgress(lg, job)
                IN  IF Verdict(job) = "success"
                    THEN /\ pc' = "done"
                         /\ log' = Append(reported, Event("return", 0, ""))
                         /\ result' = [success |-> TRUE, job |-> job, error |-> NoError,
                                       thrown |-> FALSE]
                    ELSE IF Verdict(job) = "failure"
                    THEN /\ pc' = "done"
                         /\ log' = Append(reported, Event("return", 0, ""))
                         /\ result' = [success |-> FALSE, job |-> job,
                                       error |-> "Job " \o job.status, thrown |-> FALSE]
                    ELSE /\ pc' = "sleep"
                         /\ log' = Append(reported, Event("sleep", PollInterval, ""))
                         /\ result' = NoResult
    /\ UNCHANGED options
    /\ OthersUnchanged

\* A sleep that takes no time.
WakeAtOnce(overshoot) ==
    /\ pc = "sleep"
    /\ now' = now + overshoot
    /\ elapsedFirst' = (now' >= Timeout)
    /\ LoopTop(now', log)
    /\ UNCHANGED options
    /\ OthersUnchanged

\* The end of the sleep, up to the next await or to the return.
Wake(overshoot) ==
    /\ pc = "sleep"
    /\ now' = now + PollInterval + overshoot
    /\ elapsedFirst' = (now' >= Timeout)
    /\ LoopTop(now', log)
    /\ UNCHANGED options
    /\ OthersUnchanged

NextWait ==
    \/ \E p \in GivenPollIntervals, t \in GivenTimeouts, cb \in BOOLEAN :
            WaitForCompletion(p, t, cb)
    \/ \E a \in Answers, l \in Latencies : Answer(a, l)
    \/ \E o \in Overshoots : Wake(o)

InitWait == InitStream({TRUE}, {Omitted}) /\ InitDispatch /\ InitNoWait /\ InitNoCall

SpecWait == InitWait /\ [][NextWait]_vars

\* Every request is answered and every sleep ends.
SpecWaitFair ==
    /\ InitWait
    /\ [][NextWait]_vars
    /\ WF_vars(\E a \in Answers, l \in Latencies : Answer(a, l))
    /\ WF_vars(\E o \in Overshoots : Wake(o))

----------------------------------------------------------------------------
(* JobClient.getJobProgress *)

\* An optional field: not there, or there with a value.
Absent == [set |-> FALSE, value |-> 0]
Given(v) == [set |-> TRUE, value |-> v]

\* job.frames.total of the snapshots, at most.
MaxFrames == 4

\* Date.now() at the call, in ms.
ClockNow == 200000

\* Date.now() - new Date(job.startedAt).getTime() of the snapshots, in ms.
Elapsed == {0, 400, 1500, 2500, 100000}

SnapshotStatuses == {"queued", "rendering", "completed", "failed"}

StartedAts == {Absent} \cup {Given(ClockNow - e) : e \in Elapsed}

NoFrames == [set |-> FALSE, total |-> 0, completed |-> 0]
Frames(total, completed) == [set |-> TRUE, total |-> total, completed |-> completed]

FrameCounts ==
    {NoFrames, Frames(100, 25)}
    \cup {Frames(t, c) : t \in 0..MaxFrames, c \in 0..MaxFrames}

Snapshot(status, startedAt, frames) ==
    [id |-> "job1", status |-> status, progress |-> 50,
     startedAt |-> startedAt, frames |-> frames]

Snapshots ==
    {Snapshot(st, sa, fr) : st \in SnapshotStatuses, sa \in StartedAts, fr \in FrameCounts}

\* Answers of apiClient.getJob(jobId) with such a snapshot.
SnapshotAnswers ==
    {[success |-> TRUE, hasData |-> TRUE, data |-> j, error |-> NoError] : j \in Snapshots}

GetJob(jobId) == [method |-> "getJob", jobId |-> jobId]

\* if (!result.success || !result.data)
NoSnapshot(answer) == ~answer.success \/ ~answer.hasData

\* job.frames.completed || 1
FramesCompleted(job) == IF job.frames.completed = 0 THEN 1 ELSE job.frames.completed

\* Math.round(n / d) for d > 0: halves go up.
Round(n, d) == (2 * n + d) \div (2 * d)

\* Math.round((framesRemaining * timePerFrame) / 1000), in exact arithmetic.
EstimatedTimeRemaining(job, clock) ==
    LET elapsed == clock - job.startedAt.value
        framesCompleted == FramesCompleted(job)
        framesRemaining == job.frames.total - framesCompleted
    IN  Round(framesRemaining * elapsed, framesCompleted * 1000)

\* An estimate for a snapshot of any status.
HasEstimateAnyStatus(job) == job.startedAt.set /\ job.frames.set

\* if (job.status === 'rendering' && job.startedAt && job.frames)
HasEstimate(job) == job.status = "rendering" /\ job.startedAt.set /\ job.frames.set

NoProgress == [jobId |-> "none"]

GetJobProgressResult(answer, clock) ==
    IF NoSnapshot(answer)
    THEN [success |-> FALSE, error |-> answer.error, progress |-> NoProgress]
    ELSE LET job == answer.data
         IN  [success |-> TRUE, error |-> NoError,
              progress |->
                [jobId |-> job.id, status |-> job.status, progress |-> job.progress,
                 currentFrame |-> IF job.frames.set THEN Given(job.frames.completed)
                                  ELSE Absent,
                 totalFrames |-> IF job.frames.set THEN Given(job.frames.total)
                                 ELSE Absent,
                 estimatedTimeRemaining |->
                    IF HasEstimate(job) THEN Given(EstimatedTimeRemaining(job, clock))
                    ELSE Absent]]

OnlyCall == UNCHANGED <<streamVars, dispatchVars, waitVars>>

GetJobProgress(jobId, answer) ==
    /\ call' = [op |-> "getJobProgress", jobId |-> jobId, answer |-> answer,
                clock |-> ClockNow]
    /\ requests' = <<GetJob(jobId)>>
    /\ ret' = GetJobProgressResult(answer, ClockNow)
    /\ OnlyCall

----------------------------------------------------------------------------
(* JobClient.getFrameStatuses *)

\* Strings of frameNumbers are sequences of characters.
Digits == <<"0", "1", "2", "3", "4", "5", "6", "7", "8", "9">>

IsDigit(c) == \E d \in 1..10 : Digits[d] = c

DigitValue(c) == (CHOOSE d \in 1..10 : Digits[d] = c) - 1

RECURSIVE SkipWhiteSpace(_)
SkipWhiteSpace(text) ==
    IF text # <<>> /\ Head(text) = " " THEN SkipWhiteSpace(Tail(text)) ELSE text

\* The digits a text begins with, as a number; NaN when it begins with none.
RECURSIVE LeadingDigits(_, _, _)
LeadingDigits(text, value, any) ==
    IF text # <<>> /\ IsDigit(Head(text))
    THEN LeadingDigits(Tail(text), value * 10 + DigitValue(Head(text)), TRUE)
    ELSE [nan |-> ~any, value |-> value]

\* parseInt(f, 10): white space, a sign, digits; what follows is ignored.
ParseInt(text) ==
    LET t == SkipWhiteSpace(text)
        signed == t # <<>> /\ Head(t) \in {"+", "-"}
        r == LeadingDigits(IF signed THEN Tail(t) ELSE t, 0, FALSE)
    IN  IF r.nan THEN [nan |-> TRUE, value |-> 0]
        ELSE [nan |-> FALSE, value |-> IF signed /\ Head(t) = "-" THEN -r.value ELSE r.value]

\* Strings in frameNumbers, at most.
MaxFilter == 2

FrameTexts ==
    {<<"1">>, <<"0", "3">>, <<" ", "4">>, <<"2", "x">>, <<"x">>, <<"-", "1">>, <<"9">>}

\* frameNumbers not passed.
NoFilter == [set |-> FALSE, value |-> <<>>]

FrameFilters ==
    {NoFilter} \cup {Given(f) : f \in UNION {[1..n -> FrameTexts] : n \in 0..MaxFilter}}

FrameSnapshots ==
    {Snapshot(st, Absent, fr) :
        st \in SnapshotStatuses,
        fr \in {NoFrames, Frames(5, 2)}
                \cup {Frames(t, c) : t \in 0..MaxFrames, c \in 0..MaxFrames}}

FrameAnswers ==
    {[success |-> TRUE, hasData |-> TRUE, data |-> j, error |-> NoError] :
        j \in FrameSnapshots}

\* requestedFrames.has(frameNum)
Has(texts, frameNum) ==
    \E k \in 1..Len(texts) : ParseInt(texts[k]) = [nan |-> FALSE, value |-> frameNum]

\* The status of frame i + 1 with the test i <= completed for a finished frame.
FrameStatusInclusive(i, job) ==
    IF i <= job.frames.completed THEN "completed"
    ELSE IF i < job.frames.completed + 1 /\ job.status = "rendering" THEN "rendering"
    ELSE "pending"

\* The status of frame i + 1.
FrameStatus(i, job) ==
    IF i < job.frames.completed THEN "completed"
    ELSE IF i < job.frames.completed + 1 /\ job.status = "rendering" THEN "rendering"
    ELSE "pending"

\* for (let i = 0; i < job.frames.total; i++) from i on.
RECURSIVE FrameLoop(_, _, _)
FrameLoop(i, job, requested) ==
    IF ~(i < job.frames.total) THEN <<>>
    ELSE (IF requested.set /\ ~Has(requested.value, i + 1) THEN <<>>
          ELSE <<[frameNumber |-> i + 1, status |-> FrameStatus(i, job)]>>)
         \o FrameLoop(i + 1, job, requested)

GetFrameStatusesResult(answer, frameNumbers) ==
    IF NoSnapshot(answer)
    THEN [success |-> FALSE, error |-> answer.error, frames |-> <<>>]
    ELSE [success |-> TRUE, error |-> NoError,
          frames |-> IF answer.data.frames.set
                     THEN FrameLoop(0, answer.data, frameNumbers)
                     ELSE <<>>]

GetFrameStatuses(jobId, frameNumbers, answer) ==
    /\ call' = [op |-> "getFrameStatuses", jobId |-> jobId, answer |-> answer,
                filter |-> frameNumbers]
    /\ requests' = <<GetJob(jobId)>>
    /\ ret' = GetFrameStatusesResult(answer, frameNumbers)
    /\ OnlyCall

----------------------------------------------------------------------------
(* JobClient.retryJob *)

RetryJobIds == {"jobA", "jobB"}

\* options of retryJob; "undefined" is a field, or the options, not passed.
RetryOptions ==
    {[retryFailedFramesOnly |-> f, newPriority |-> p] :
        f \in {"undefined", "true", "false"}, p \in {"undefined", "", "high"}}

\* Answers of getJob(jobId) for the original job: failures with and without
\* a message, success without a record, success with a record.
OriginalAnswers ==
    ErrorAnswers
    \cup {EmptyAnswer,
          [success |-> FALSE, hasData |-> FALSE, data |-> NoJob, error |-> ""]}
    \cup {[success |-> TRUE, hasData |-> TRUE, data |-> Snapshot(st, Absent, NoFrames),
           error |-> NoError] : st \in {"failed", "completed"}}

\* Answers of createJob(params).
CreateAnswers ==
    {[success |-> TRUE, hasData |-> TRUE, id |-> "jobNew", error |-> NoError],
     [success |-> TRUE, hasData |-> FALSE, id |-> "undefined", error |-> NoError],
     [success |-> FALSE, hasData |-> FALSE, id |-> "undefined", error |-> "e1"]}

\* a || b for strings: undefined and the empty string give b.
Or(a, b) == IF a \in {"undefined", ""} THEN b ELSE a

CreateJob(params) == [method |-> "createJob", params |-> params]

RetryParams(jobId, opts) ==
    [metadata |-> [retryOf |-> jobId,
                   retryFailedFramesOnly |-> opts.retryFailedFramesOnly],
     priority |-> Or(opts.newPriority, "normal")]

\* A test of the original that looks at success only.
OriginalMissingOnFailureOnly(original) == ~original.success

\* if (!original.success || !original.data)
OriginalMissing(original) == ~original.success \/ ~original.hasData

RetryJob(jobId, opts, original, created) ==
    /\ call' = [op |-> "retryJob", jobId |-> jobId, options |-> opts,
                original |-> original]
    /\ IF OriginalMissing(original)
       THEN /\ requests' = <<GetJob(jobId)>>
            /\ ret' = [success |-> FALSE, newJobId |-> "undefined",
                       error |-> Or(original.error, "Original job not found")]
       ELSE /\ requests' = <<GetJob(jobId), CreateJob(RetryParams(jobId, opts))>>
            /\ ret' = [success |-> created.success, newJobId |-> created.id,
                       error |-> created.error]
    /\ OnlyCall

\* No operation of JobClient has been called yet.
NotCalled == call.op = "none"

\* The operations of JobClient that answer from one or two requests.  The
\* JobClient keeps nothing between calls, so what one call does every call
\* does.
NextJobClient ==
    \/ /\ NotCalled
       /\ \E j \in RetryJobIds, a \in SnapshotAnswers \cup ErrorAnswers \cup {EmptyAnswer} :
                GetJobProgress(j, a)
    \/ /\ NotCalled
       /\ \E f \in FrameFilters, a \in FrameAnswers \cup ErrorAnswers \cup {EmptyAnswer} :
                GetFrameStatuses("jobA", f, a)
    \/ /\ NotCalled
       /\ \E j \in RetryJobIds, o \in RetryOptions, a \in OriginalAnswers,
             c \in CreateAnswers :
                RetryJob(j, o, a, c)

InitJobClient == InitStream({TRUE}, {Omitted}) /\ InitDispatch /\ InitNoWait /\ InitNoCall

SpecJobClient == InitJobClient /\ [][NextJobClient]_vars

----------------------------------------------------------------------------
(* jobUtils: formatJobStatus and calculateProgress *)

\* Strings are sequences of characters.
UpperCase == <<"A", "B", "C", "D", "E", "F", "G", "H", "I", "J", "K", "L", "M",
               "N", "O", "P", "Q", "R", "S", "T", "U", "V", "W", "X", "Y", "Z">>
LowerCase == <<"a", "b", "c", "d", "e", "f", "g", "h", "i", "j", "k", "l", "m",
               "n", "o", "p", "q", "r", "s", "t", "u", "v", "w", "x", "y", "z">>

\* The letter of to at the place that c has in from; c when it has none.
Convert(c, from, to) ==
    IF \E k \in 1..Len(from) : from[k] = c
    THEN to[CHOOSE k \in 1..Len(from) : from[k] = c]
    ELSE c

\* String.prototype.toLowerCase
ToLowerCase(str) == [i \in 1..Len(str) |-> Convert(str[i], UpperCase, LowerCase)]

\* String.prototype.toUpperCase
ToUpperCase(str) == [i \in 1..Len(str) |-> Convert(str[i], LowerCase, UpperCase)]

statusMap ==
    <<[status |-> <<"p", "e", "n", "d", "i", "n", "g">>,
       text |-> <<"P", "e", "n", "d", "i", "n", "g", " ", "-", " ", "W", "a",
                 "i", "t", "i", "n", "g", " ", "i", "n", " ", "q", "u", "e",
                 "u", "e">>],
      [status |-> <<"q", "u", "e", "u", "e", "d">>,
       text |-> <<"Q", "u", "e", "u", "e", "d", " ", "-", " ", "R", "e", "a",
                 "d", "y", " ", "t", "o", " ", "s", "t", "a", "r", "t">>],
      [status |-> <<"a", "s", "s", "i", "g", "n", "e", "d">>,
       text |-> <<"A", "s", "s", "i", "g", "n", "e", "d", " ", "-", " ", "S",
                 "e", "n", "t", " ", "t", "o", " ", "n", "o", "d", "e">>],
      [status |-> <<"p", "r", "e", "p", "a", "r", "i", "n", "g">>,
       text |-> <<"P", "r", "e", "p", "a", "r", "i", "n", "g", " ", "-", " ",
                 "S", "e", "t", "t", "i", "n", "g", " ", "u", "p", " ", "s",
                 "c", "e", "n", "e">>],
      [status |-> <<"r", "e", "n", "d", "e", "r", "i", "n", "g">>,
       text |-> <<"R", "e", "n", "d", "e", "r", "i", "n", "g", " ", "-", " ",
                 "I", "n", " ", "p", "r", "o", "g", "r", "e", "s", "s">>],
      [status |-> <<"p", "r", "o", "c", "e", "s", "s", "i", "n", "g">>,
       text |-> <<"P", "r", "o", "c", "e", "s", "s", "i", "n", "g", " ", "-",
                 " ", "P", "o", "s", "t", "-", "p", "r", "o", "c", "e", "s",
                 "s", "i", "n", "g", " ", "o", "u", "t", "p", "u", "t">>],
      [status |-> <<"u", "p", "l", "o", "a", "d", "i", "n", "g">>,
       text |-> <<"U", "p", "l", "o", "a", "d", "i", "n", "g", " ", "-", " ",
                 "S", "a", "v", "i", "n", "g", " ", "r", "e", "s", "u", "l",
                 "t", "s">>],
      [status |-> <<"c", "o", "m", "p", "l", "e", "t", "e", "d">>,
       text |-> <<"C", "o", "m", "p", "l", "e", "t", "e", "d", " ", "-", " ",
                 "R", "e", "a", "d", "y", " ", "f", "o", "r", " ", "d", "o",
                 "w", "n", "l", "o", "a", "d">>],
      [status |-> <<"f", "a", "i", "l", "e", "d">>,
       text |-> <<"F", "a", "i", "l", "e", "d", " ", "-", " ", "E", "r", "r",
                 "o", "r", " ", "o", "c", "c", "u", "r", "r", "e", "d">>],
      [status |-> <<"c", "a", "n", "c", "e", "l", "l", "e", "d">>,
       text |-> <<"C", "a", "n", "c", "e", "l", "l", "e", "d", " ", "-", " ",
                 "S", "t", "o", "p", "p", "e", "d", " ", "b", "y", " ", "u",
                 "s", "e", "r">>],
      [status |-> <<"t", "i", "m", "e", "o", "u", "t">>,
       text |-> <<"T", "i", "m", "e", "o", "u", "t", " ", "-", " ", "E", "x",
                 "c", "e", "e", "d", "e", "d", " ", "t", "i", "m", "e", " ",
                 "l", "i", "m", "i", "t">>]>>

\* statusMap[key], with <<>> for undefined.
StatusText(key) ==
    IF \E i \in 1..Len(statusMap) : statusMap[i].status = key
    THEN statusMap[CHOOSE i \in 1..Len(statusMap) : statusMap[i].status = key].text
    ELSE <<>>

\* return statusMap[status.toLowerCase()] || status
FormatJobStatusResult(status) ==
    LET text == StatusText(ToLowerCase(status))
    IN  IF text # <<>> THEN text ELSE status

Statuses ==
    {<<"p", "e", "n", "d", "i", "n", "g">>,
     <<"r", "u", "n", "n", "i", "n", "g">>,
     <<"c", "o", "m", "p", "l", "e", "t", "e", "d">>,
     <<"f", "a", "i", "l", "e", "d">>,
     <<"u", "n", "k", "n", "o", "w", "n", "_", "s", "t", "a", "t", "u", "s">>,
     <<"P", "e", "n", "d", "i", "n", "g">>,
     <<"F", "A", "I", "L", "E", "D">>,
     <<"q", "u", "e", "u", "e", "d">>,
     <<"T", "i", "m", "e", "o", "u", "t">>,
     <<"c", "a", "n", "c", "e", "l", "l", "e", "d">>,
     <<"r", "e", "n", "d", "e", "r", "i", "n", "g">>,
     <<>>,
     <<"x">>,
     <<"C", "o", "m", "p", "l", "e", "t", "e", "d", " ", "-", " ", "R", "e",
       "a", "d", "y", " ", "f", "o", "r", " ", "d", "o", "w", "n", "l", "o",
       "a", "d">>}

FormatJobStatus(status) ==
    /\ call' = [op |-> "formatJobStatus", status |-> status]
    /\ requests' = <<>>
    /\ ret' = FormatJobStatusResult(status)
    /\ OnlyCall

\* Arguments of calculateProgress: frame counts up to MaxCount, and those of
\* the unit tests.
MaxCount == 8
Currents == (-3..MaxCount) \cup {-10, 50, 100, 150}
Totals == (-2..MaxCount) \cup {100}

Least(a, b) == IF a <= b THEN a ELSE b

\* calculateProgress without Math.min and Math.max.
CalculateProgressUnclamped(current, total) ==
    IF total <= 0 THEN 0
    ELSE Round(current * 10000, total)

\* calculateProgress, in hundredths of a percent: Math.round(progress * 100)
\* is the integer nearest to current * 10000 / total, halves going up.  (For
\* these arguments the quotient is never within floating-point error of a
\* half.)
CalculateProgressResult(current, total) ==
    IF total <= 0 THEN 0
    ELSE Least(10000, Max(0, Round(current * 10000, total)))

CalculateProgress(current, total) ==
    /\ call' = [op |-> "calculateProgress", current |-> current, total |-> total]
    /\ requests' = <<>>
    /\ ret' = CalculateProgressResult(current, total)
    /\ OnlyCall

\* The two functions, each called once with every argument.
NextJobUtils ==
    \/ /\ NotCalled
       /\ \E status \in Statuses : FormatJobStatus(status)
    \/ /\ NotCalled
       /\ \E current \in Currents, total \in Totals : CalculateProgress(current, total)

SpecJobUtils == InitJobClient /\ [][NextJobUtils]_vars

----------------------------------------------------------------------------
(* The stream client under every call and every socket event *)

Next ==
    \/ Connect(MaxLive)
    \/ \E s \in SocketIds : OnOpen(s)
    \/ \E s \in SocketIds : OnClose(s)
    \/ ReconnectTimer
    \/ Disconnect

Spec == Init /\ [][Next]_vars

\* The same, with the channel subscriptions.
NextChannels ==
    \/ Connect(MaxLiveChannels)
    \/ \E s \in SocketIds : OnOpen(s)
    \/ \E s \in SocketIds : OnClose(s)
    \/ ReconnectTimer
    \/ Disconnect
    \/ \E j \in JobIds : SubscribeToJob(j)
    \/ \E j \in JobIds : UnsubscribeFromJob(j)
    \/ \E n \in NodeIds : SubscribeToNode(n)
    \/ \E a \in Addresses : SubscribeToWallet(a)
    \/ SubscribeToNetworkStats

SpecChannels == InitChannels /\ [][NextChannels]_vars

\* A client left to itself: the caller connects when the client has neither
\* a socket nor a reconnect pending, and does nothing else.
NextReconnect ==
    \/ Connect(1)
    \/ \E s \in SocketIds : OnOpen(s)
    \/ \E s \in SocketIds : OnClose(s)
    \/ ReconnectTimer

\* The handshake of a socket ends: it opens, or it fails and closes.
Resolve(s) == sockets[s] = "connecting" /\ (OnOpen(s) \/ OnClose(s))

\* Timers fire and handshakes end; connections need not drop.
SpecReconnect ==
    /\ Init
    /\ [][NextReconnect]_vars
    /\ WF_vars(ReconnectTimer)
    /\ WF_vars(\E s \in SocketIds : Resolve(s))

\* The client of a caller that may pass an endpoint and names the stream it
\* connects to.
GivenEndpoints == {NoEndpoint, "wss://example.test/stream"}

InitEndpoints ==
    /\ InitStreamWith({TRUE}, {Omitted}, GivenEndpoints)
    /\ InitDispatch /\ InitNoWait /\ InitNoCall

NextEndpoints ==
    \/ \E t \in StreamTypes : ConnectTo(t, MaxLive)
    \/ \E s \in SocketIds : OnOpen(s)
    \/ \E s \in SocketIds : OnClose(s)
    \/ ReconnectTimer
    \/ Disconnect

SpecEndpoints == InitEndpoints /\ [][NextEndpoints]_vars

\* A connected client with the handler registries and the inbound messages.
NextDispatch ==
    \/ \E s \in SocketIds : OnOpen(s)
    \/ \E s \in SocketIds : OnClose(s)
    \/ ReconnectTimer
    \/ Disconnect
    \/ \E t \in EventTypes, h \in Handlers : Subscribe(t, h)
    \/ \E h \in Handlers : SubscribeAll(h)
    \/ \E t \in EventTypes, h \in Handlers : Unsubscribe(t, h)
    \/ \E h \in Handlers : UnsubscribeAll(h)
    \/ \E s \in SocketIds, raw \in RawMessages : OnMessage(s, raw)
    \/ \E e \in Effects, outcome \in {"return", "throw"} : InvokeHandler(e, outcome)

SpecDispatch == InitHandlers /\ [][NextDispatch]_vars

TypeOK ==
    /\ ws \in SocketIds \cup {NoSocket}
    /\ reconnectAttempts \in 0..DefaultMaxReconnectAttempts
    /\ timers \in 0..Max(MaxLive, MaxLiveChannels)
    /\ Cardinality(Live) + timers <= Max(MaxLive, MaxLiveChannels)
    /\ dPhase \in {"idle", "typed", "global"}
    /\ dPhase = "typed" => NextIndex(TypedHandlers(handlers, dEvent), dCursor) # 0
    /\ dPhase = "global" => NextIndex(globalHandlers, dCursor) # 0
    /\ dPhase = "idle" => (Empty \notin SeqToSet(globalHandlers)
                            /\ \A t \in EventTypes : Empty \notin SeqToSet(handlers[t]))

----------------------------------------------------------------------------
(* Reconnection and resubscription *)

C2_AttemptsWithinConfigured ==
    reconnectAttempts <= config.maxReconnectAttempts

\* C3: once disconnect() has been called, a close event schedules no
\* reconnect and leaves the attempt counter unchanged.
C3_NoReconnectAfterDisconnect ==
    [][(disconnectCalled /\ lastOp' = "close") =>
            (timers' = timers /\ reconnectAttempts' = reconnectAttempts)]_vars

\* A close after disconnect() that would otherwise have scheduled a reconnect.
C3_Witness ==
    /\ disconnectCalled
    /\ lastOp = "close"
    /\ config.reconnect
    /\ reconnectAttempts < MaxAttempts

\* C4: a reconnect scheduled before disconnect() is a no-op when it fires:
\* no socket is created, nothing is sent, the client stays disconnected.
C4_ScheduledReconnectIsNoOp ==
    [][(disconnectCalled /\ lastOp' = "reconnect") =>
            (ws' = ws /\ sockets' = sockets /\ sent' = <<>> /\ ~isConnected')]_vars

\* C5: when a socket opens the attempt counter is 0 again, so that the next
\* drop is attempt 1 of the budget.
C5_AttemptsResetOnOpen ==
    /\ lastOp = "open" => reconnectAttempts = 0
    /\ (lastOp = "close" /\ prevAttempts = 0 /\ shouldReconnect /\ config.reconnect)
            => (reconnectAttempts = 1 /\ timers >= 1)

\* A socket that opens after failed attempts.
C5_Witness ==
    /\ lastOp = "open"
    /\ prevAttempts >= 2
    /\ reconnectAttempts = 0

\* Sockets that are opening or open: each has the listeners of connect() and
\* hands its messages to handleEvent.
Transports == {s \in SocketIds : sockets[s] \in {"connecting", "open"}}

\* C12: the client never has two sockets opening or open at once.
C12_OneLiveTransport == Cardinality(Transports) <= 1

\* C25: isActive() is true exactly when the socket that this.ws refers to has
\* opened and has not closed, whatever the order of connect(), disconnect(),
\* drops and reconnects; a late close of a socket that this.ws no longer
\* refers to does not change it.
C25_ActiveIffOwnedOpen ==
    isConnected <=> (ws # NoSocket /\ sockets[ws] = "open")

\* C29: the close of a socket that never opened does what the close of an
\* open socket does: with reconnection enabled and attempts left it counts an
\* attempt and sets a timer, and the timer then connects again.
C29_FailedHandshakeIsADrop ==
    /\ [][(lastOp' = "close" /\ sockets[lastSock'] \in {"connecting", "open"}) =>
            IF shouldReconnect /\ config.reconnect /\ reconnectAttempts < MaxAttempts
            THEN /\ timers' = timers + 1
                 /\ reconnectAttempts' = reconnectAttempts + 1
            ELSE /\ timers' = timers
                 /\ reconnectAttempts' = reconnectAttempts]_vars
    /\ (lastOp = "close" /\ timers > 0) ~> (lastOp = "reconnect")

\* The second close in a row: of the socket that the first reconnect
\* created, which did not open (an open makes the counter 0).
C29_Witness ==
    /\ lastOp = "close"
    /\ prevAttempts = 1
    /\ reconnectAttempts = 2
    /\ timers = 1
    /\ ~isConnected

\* C30: after disconnect() shouldReconnect stays false, nothing sets it to
\* true again, and the drop of a connection that a later connect() opened
\* schedules no reconnect and leaves the attempt counter as it is.
C30_DisconnectIsPermanent ==
    /\ [](disconnectCalled => ~shouldReconnect)
    /\ [][shouldReconnect' => shouldReconnect]_vars
    /\ [][(disconnectCalled /\ lastOp' = "close" /\ lastSock' = ws
            /\ sockets[ws] = "open") =>
                (timers' = timers /\ reconnectAttempts' = reconnectAttempts)]_vars

\* The close of the socket that a connect() after disconnect() created, in
\* a client that would reconnect had disconnect() not been called.
C30_Witness ==
    /\ disconnectCalled
    /\ lastOp = "close"
    /\ ws # NoSocket
    /\ lastSock = ws
    /\ config.reconnect
    /\ reconnectAttempts = 0
    /\ timers = 0

\* C28: the socket that an automatic reconnect creates is given the address
\* of the stream that the caller's connect(streamType) named, with and
\* without an endpoint in the configuration.
C28_ReconnectKeepsStream ==
    lastOp = "reconnect" =>
        endpoint = (IF config.endpoint # NoEndpoint THEN config.endpoint
                    ELSE WEBSOCKET_ENDPOINTS[streamType])

\* The channel that the call of the last step asked for.
AskedChannel ==
    IF lastOp = "subscribeToJob" THEN JobChannel("j1")
    ELSE IF lastOp = "subscribeToNode" THEN NodeChannel("n1")
    ELSE IF lastOp = "subscribeToWallet" THEN WalletChannel("a1")
    ELSE NetworkStatsChannel

SubscribeCalls ==
    {"subscribeToJob", "subscribeToNode", "subscribeToWallet", "subscribeToNetworkStats"}

\* C21: a subscribeTo... call always adds its channel to the subscriptions;
\* it sends one subscribe directive for it when the client is connected at
\* the call, and sends nothing when it is not.
C21_SubscribeSendsIffConnected ==
    lastOp \in SubscribeCalls =>
        /\ AskedChannel \in SeqToSet(subscriptions)
        /\ ~threw
        /\ isConnected =>
                sent = <<[sock |-> ws, data |-> Directive("subscribe", AskedChannel)]>>
        /\ ~isConnected => sent = <<>>

\* The last step was the close of a socket, with reconnection enabled and
\* attempts left.
DroppedWithBudget ==
    /\ lastOp = "close"
    /\ ~disconnectCalled
    /\ config.reconnect
    /\ prevAttempts < (IF config.maxReconnectAttempts = 0 THEN 10
                        ELSE config.maxReconnectAttempts)

\* Every attempt of the budget has been made and has failed.
BudgetExhausted ==
    /\ ~isConnected
    /\ timers = 0
    /\ Transports = {}
    /\ reconnectAttempts >= (IF config.maxReconnectAttempts = 0 THEN 10
                              ELSE config.maxReconnectAttempts)

\* C23: after a drop with reconnection enabled, and without any call of the
\* caller, the client connects again and again until it is connected or
\* the attempts are used up: it becomes connected unless every attempt of
\* the budget fails.
C23_ReconnectsAfterDrop ==
    DroppedWithBudget ~> (isConnected \/ BudgetExhausted)

\* Connected again at the second attempt after a drop.
C23_Witness ==
    /\ lastOp = "open"
    /\ lastSock = ws
    /\ isConnected
    /\ prevAttempts = 2
    /\ ~disconnectCalled

----------------------------------------------------------------------------
(* Dispatch *)

\* The last step was a handler call that threw and had called nothing of the
\* client.
ThrowingCall ==
    /\ lastOp' = "message"
    /\ Len(invoked') = Len(invoked) + 1
    /\ lastThrow' = Len(invoked')
    /\ lastPure'

\* C6: when a handler throws, the exception does not leave handleEvent, and
\* every handler that was registered for the type of the event or with
\* subscribeAll when the dispatch began, and that no handler removed
\* meanwhile, is called for the event; the throwing call changes neither the
\* connection, nor the subscriptions, nor the registries.
C6_ThrowingHandlerIsolated ==
    /\ []((lastOp = "message" /\ ~dropped /\ lastThrow # 0) => ~aborted)
    /\ []((lastOp = "message" /\ ~dropped /\ lastThrow # 0 /\ dPhase = "idle")
                => (owedTyped = {} /\ owedGlobal = {}))
    /\ [][ThrowingCall =>
            /\ UNCHANGED <<ws, sockets, isConnected, reconnectAttempts,
                           shouldReconnect, subscriptions, timers>>
            /\ Entries(globalHandlers') = Entries(globalHandlers)
            /\ \A t \in EventTypes : Entries(handlers'[t]) = Entries(handlers[t])]_vars

\* The first of two handlers of the type threw; the second and a subscribeAll
\* handler were called after it.
C6_Witness ==
    /\ lastOp = "message"
    /\ dPhase = "idle"
    /\ lastThrow = 1
    /\ lastPure
    /\ effects = 0
    /\ Len(invoked) >= 3
    /\ invoked[1].loop = "typed"
    /\ invoked[2].loop = "typed"
    /\ invoked[3].loop = "global"
    /\ startTyped = Handlers

\* The handlers called for the last event by the loop over the handlers of
\* its type, in the order of the calls.
TypedCalls ==
    LET calls == SelectSeq(invoked, LAMBDA c : c.loop = "typed")
    IN  [i \in 1..Len(calls) |-> calls[i].h]

\* handleEvent has returned from the dispatch of an event.
Dispatched == lastOp = "message" /\ ~dropped /\ ~aborted /\ dPhase = "idle"

\* C11: the handlers called for an event are exactly those that were
\* registered for its type when its dispatch began, whatever the handlers add
\* to or remove from that set while they run.
C11_SnapshotDispatch ==
    Dispatched => SeqToSet(TypedCalls) = startTyped

\* C13: for every event, every handler registered for its type is called
\* exactly once, in the order of registration (the events themselves being
\* dispatched one after the other, in the order of their arrival).
C13_AllOnceInOrder ==
    Dispatched =>
        SelectSeq(TypedCalls, LAMBDA h : h \in startTyped) = startOrder.typed

\* Messages of which the listener gets no event: text that is not JSON, and
\* the JSON text null.
Malformed == {"garbage", "null"}

Count(list, h) == Cardinality({i \in 1..Len(list) : list[i] = h})

\* C22: subscribe of a handler that is registered for the type changes
\* nothing, so the handler is in the registry once, is called once for an
\* event, and is gone after one unsubscribe; unsubscribe and unsubscribeAll
\* of a handler that is not registered change no registry.
C22_RegistryIsASet ==
    /\ [][lastOp' = "subscribe" =>
            /\ Count(handlers'[lastArgs'.type], lastArgs'.h) = 1
            /\ lastArgs'.h \in Members(handlers[lastArgs'.type])
                    => UNCHANGED <<handlers, globalHandlers>>]_vars
    /\ [][lastOp' = "unsubscribe" =>
            /\ lastArgs'.h \notin Members(handlers'[lastArgs'.type])
            /\ lastArgs'.h \notin Members(handlers[lastArgs'.type])
                    => UNCHANGED <<handlers, globalHandlers>>]_vars
    /\ [][lastOp' = "unsubscribeAll" =>
            /\ lastArgs'.h \notin Members(globalHandlers')
            /\ lastArgs'.h \notin Members(globalHandlers)
                    => UNCHANGED <<handlers, globalHandlers>>]_vars
    /\ []((Dispatched /\ effects = 0) =>
                \A h \in Handlers : Count(TypedCalls, h) <= 1)

\* subscribe of a handler that was registered before another one.
C22_Witness ==
    /\ lastOp = "subscribe"
    /\ Len(handlers[lastArgs.type]) = 2
    /\ handlers[lastArgs.type][1] = lastArgs.h

----------------------------------------------------------------------------
(* waitForCompletion *)

Only(e) == SelectSeq(log, LAMBDA x : x.e = e)

AnswersGot == Only("answer")

LastAnswer == AnswersGot[Len(AnswersGot)]

FinalStatuses == {"completed", "failed", "cancelled"}

\* The call has returned after a poll that reported a final status.
ReturnedOnFinal ==
    /\ pc = "done"
    /\ AnswersGot # <<>>
    /\ LastAnswer.status \in FinalStatuses

TimeoutFailure ==
    [success |-> FALSE, job |-> NoJob, error |-> TimeoutError, thrown |-> FALSE]

\* C7: when the first of completed, failed, cancelled is reported by poll k,
\* the call makes exactly k getJob requests and k onProgress calls, one per
\* poll and with the snapshot of that poll, each right after the answer and
\* before the status is tested, the final snapshot included.
C7_PollsAndProgress ==
    (ReturnedOnFinal /\ options.onProgress) =>
        LET k == Len(AnswersGot)
            reports == Only("onProgress")
        IN  /\ Polls(log) = k
            /\ Len(reports) = k
            /\ \A i \in 1..k : /\ reports[i].status = AnswersGot[i].status
                                /\ reports[i].n = AnswersGot[i].n
            /\ \A p \in 1..(Len(log) - 1) :
                    log[p].e = "answer" => log[p + 1].e = "onProgress"
            /\ log[Len(log)].e = "return"

\* rendering 50, rendering 80, completed, with pollInterval 1.
C7_Witness ==
    /\ ReturnedOnFinal
    /\ options.onProgress
    /\ options.pollInterval = 1
    /\ Len(AnswersGot) = 3
    /\ AnswersGot[1] = Event("answer", 50, "rendering")
    /\ AnswersGot[2] = Event("answer", 80, "rendering")
    /\ AnswersGot[3] = Event("answer", 100, "completed")
    /\ result.success

\* C8: the call returns success only after a poll that reported completed;
\* after a poll that reported failed or cancelled it returns success = false
\* with the job record of that poll.
C8_SuccessOnlyCompleted ==
    pc = "done" =>
        /\ result.success =>
                (AnswersGot # <<>> /\ LastAnswer.status = "completed"
                 /\ result.job = Job("completed", LastAnswer.n))
        /\ (AnswersGot # <<>> /\ LastAnswer.status \in {"failed", "cancelled"}) =>
                /\ ~result.success
                /\ ~result.thrown
                /\ result.job = Job(LastAnswer.status, LastAnswer.n)

\* A job that failed at the second poll.
C8_Witness ==
    /\ pc = "done"
    /\ Len(AnswersGot) = 2
    /\ AnswersGot[1].status = "rendering"
    /\ LastAnswer.status = "failed"
    /\ result.job = Job("failed", 80)
    /\ ~result.success

\* C9, as claimed: when timeout has passed before any poll reported
\* completed, failed or cancelled, the call returns the timeout failure, not
\* success and not the failure of a failed or cancelled job (polls whose
\* request failed or that carried no job record left aside).
C9_TimeoutFailureWheneverElapsed ==
    (pc = "done" /\ elapsedFirst /\ ~result.thrown /\ AnswersGot # <<>>
     /\ LastAnswer.status \in {"rendering", "timeout"} \cup FinalStatuses)
        => result = TimeoutFailure

\* C9, amended: the call returns the timeout failure exactly when the loop
\* condition, tested at the call and after each sleep, finds that timeout has
\* passed; a poll in flight at that time is still evaluated.
C9_TimeoutAtLoopCondition ==
    /\ \A p \in 1..Len(log) :
            log[p].e = "check" => (log[p].status = "out" <=> log[p].n >= Timeout)
    /\ pc = "done" =>
            (result = TimeoutFailure <=> log[Len(log) - 1] = Event("check", now, "out"))
    /\ (pc = "done" /\ result = TimeoutFailure) =>
            \A i \in 1..Len(AnswersGot) : AnswersGot[i].status \in {"rendering", "timeout"}

\* Two polls, then the timeout of 3.
C9_Witness ==
    /\ pc = "done"
    /\ result = TimeoutFailure
    /\ options.timeout = 3
    /\ Len(AnswersGot) = 2
    /\ now >= 3

\* C10: when a request fails the call returns at once with the error of that
\* request: no report, no sleep and no further request follow the answer.
C10_RequestFailureEndsWait ==
    \A e \in {"e1", "e2"} :
        (pc # "none" /\ AnswersGot # <<>> /\ LastAnswer.status = "error:" \o e) =>
            /\ pc = "done"
            /\ result = [success |-> FALSE, job |-> NoJob, error |-> e, thrown |-> FALSE]
            /\ log[Len(log) - 1].e = "answer"
            /\ log[Len(log)].e = "return"
            /\ Len(Only("onProgress")) =
                    IF options.onProgress THEN Len(AnswersGot) - 1 ELSE 0
            /\ Len(Only("sleep")) = Len(AnswersGot) - 1
            /\ Polls(log) = Len(AnswersGot)

\* The second request failed.
C10_Witness ==
    /\ pc = "done"
    /\ options.onProgress
    /\ Len(AnswersGot) = 2
    /\ LastAnswer.status = "error:e2"
    /\ result.error = "e2"

\* The states of a job after which no other follows.
TerminalStatuses == {"completed", "failed", "cancelled", "timeout"}

\* C18: the first poll that reports a terminal state (completed, failed,
\* cancelled or timeout) is the last: the call returns after it, without a
\* sleep and without another request.
C18_StopsAtTerminalState ==
    \A i \in 1..Len(AnswersGot) :
        AnswersGot[i].status \in TerminalStatuses =>
            /\ i = Len(AnswersGot)
            /\ pc = "done"
            /\ Polls(log) = i
            /\ Len(Only("sleep")) = i - 1

Positions(e) == {p \in 1..Len(log) : log[p].e = e}

\* C19: between two consecutive getJob requests of a call there is exactly
\* one sleep, of pollInterval as passed or of 5000 when none is passed, and
\* at least that much time passes between the two tests of the loop
\* condition that precede them.
C19_OneSleepBetweenPolls ==
    LET interval == IF options.pollInterval = 0 THEN 5000 ELSE options.pollInterval
    IN  /\ \A p, q \in Positions("getJob") :
                (p < q /\ \A m \in (p + 1)..(q - 1) : log[m].e # "getJob") =>
                    /\ Cardinality({m \in p..q : log[m].e = "sleep"}) = 1
                    /\ \A m \in p..q : log[m].e = "sleep" => log[m].n = interval
        /\ \A p, q \in Positions("check") :
                p < q => log[q].n - log[p].n >= interval
        /\ pc = "sleep" => log[Len(log)] = Event("sleep", interval, "")

\* Three polls with pollInterval 2.
C19_Witness ==
    /\ options.pollInterval = 2
    /\ Polls(log) = 3
    /\ Len(Only("sleep")) = 2
    /\ Len(AnswersGot) = 3

\* C24: a call makes at most ceil(timeout / pollInterval) getJob requests,
\* with the values the loop uses (5000 and 3600000 when none is passed), and
\* it ends whatever the polls answer, the job never finishing included (shown
\* for the timeouts that are passed; an hour of polls is beyond MaxPolls).
C24_ReturnsWithinBudget ==
    /\ [](LET interval == IF options.pollInterval = 0 THEN 5000 ELSE options.pollInterval
              limit == IF options.timeout = 0 THEN 3600000 ELSE options.timeout
          IN  (Polls(log) - 1) * interval < limit)
    /\ (pc \in {"request", "sleep"} /\ options.timeout # 0) ~> (pc = "done")

\* As many polls as a timeout of 3 and an interval of 1 allow, of a job that
\* never finishes.
C24_Witness ==
    /\ pc = "done"
    /\ options.timeout = 3
    /\ options.pollInterval = 1
    /\ Polls(log) = 3
    /\ Len(AnswersGot) = 3
    /\ \A i \in 1..3 : AnswersGot[i].status = "rendering"
    /\ result.error = TimeoutError

\* C20: waitForCompletion never throws: whatever getJob answers, it returns
\* a result with a success flag.
C20_NeverThrows == ~result.thrown

----------------------------------------------------------------------------
(* jobUtils *)

\* C26 as stated: calculateProgress returns a value within 0..100, 0 when
\* total is 0 or negative, 100 when current exceeds total, 0 when current is
\* negative, and otherwise the percentage current / total x 100.
C26_ExactPercentage ==
    call.op = "calculateProgress" =>
        /\ ret \in 0..10000
        /\ call.total <= 0 => ret = 0
        /\ (call.total > 0 /\ call.current > call.total) => ret = 10000
        /\ (call.total > 0 /\ call.current < 0) => ret = 0
        /\ (call.total > 0 /\ call.current \in 0..call.total) =>
                ret * call.total = call.current * 10000

\* C26: calculateProgress returns a value within 0..100, 0 when total is 0
\* or negative, 100 when current exceeds total, 0 when current is negative,
\* and otherwise the percentage current / total x 100 rounded to the nearest
\* hundredth.
C26_PercentageToHundredths ==
    call.op = "calculateProgress" =>
        /\ ret \in 0..10000
        /\ call.total <= 0 => ret = 0
        /\ (call.total > 0 /\ call.current > call.total) => ret = 10000
        /\ (call.total > 0 /\ call.current < 0) => ret = 0
        /\ (call.total > 0 /\ call.current \in 0..call.total) =>
                LET off == 2 * (ret * call.total - call.current * 10000)
                IN  -call.total < off /\ off <= call.total

\* A third: 33.33.
C26_Witness ==
    /\ call.op = "calculateProgress"
    /\ call.current = 1
    /\ call.total = 3
    /\ ret = 3333

\* The first letter of str in upper case, the rest as it is.
Capitalized(str) ==
    IF str = <<>> THEN str
    ELSE ToUpperCase(<<Head(str)>>) \o Tail(str)

\* C27: formatJobStatus returns the status with its first letter in upper
\* case and nothing else changed or appended, for known and unknown statuses.
C27_FirstLetterOnly ==
    call.op = "formatJobStatus" => ret = Capitalized(call.status)

----------------------------------------------------------------------------
(* getJobProgress *)

Abs(n) == IF n < 0 THEN -n ELSE n

\* C14: getJobProgress sets estimatedTimeRemaining exactly for a snapshot of
\* status rendering that has startedAt and frames; it is then within half a
\* second of framesRemaining x elapsed / framesCompleted, framesCompleted
\* being at least 1 (total 100, completed 25, started 100 s ago: 300).  For
\* every other snapshot the field is absent.
C14_EstimatedTimeRemaining ==
    (call.op = "getJobProgress" /\ ret.success) =>
        LET job == call.answer.data
            eta == ret.progress.estimatedTimeRemaining
            done == IF job.frames.completed >= 1 THEN job.frames.completed ELSE 1
            remaining == job.frames.total - done
            elapsed == call.clock - job.startedAt.value
        IN  /\ eta.set <=>
                    (job.status = "rendering" /\ job.startedAt.set /\ job.frames.set)
            /\ eta.set => 2 * Abs(eta.value * done * 1000 - remaining * elapsed)
                                <= done * 1000
            /\ (eta.set /\ job.frames = Frames(100, 25) /\ elapsed = 100000)
                    => eta.value = 300
            /\ ~eta.set => eta = Absent

\* The example: 75 frames left at 4 s a frame.
C14_Witness ==
    /\ call.op = "getJobProgress"
    /\ ret.success
    /\ call.answer.data.status = "rendering"
    /\ call.answer.data.frames = Frames(100, 25)
    /\ call.answer.data.startedAt = Given(ClockNow - 100000)
    /\ ret.progress.estimatedTimeRemaining = Given(300)

----------------------------------------------------------------------------
(* getFrameStatuses *)

\* C15: for a snapshot with frames {total, completed}, getFrameStatuses
\* returns one entry for each frame number of 1..total that passes the filter
\* (all of them without a filter), in ascending order without repeats; frames
\* 1..completed are completed, frame completed + 1 is rendering exactly when
\* the job is rendering, every other frame is pending.
C15_FrameStatuses ==
    (call.op = "getFrameStatuses" /\ ret.success /\ call.answer.data.frames.set) =>
        LET job == call.answer.data
            fs == ret.frames
            passing == {n \in 1..job.frames.total :
                            ~call.filter.set \/ Has(call.filter.value, n)}
        IN  /\ {fs[k].frameNumber : k \in 1..Len(fs)} = passing
            /\ \A k \in 1..(Len(fs) - 1) : fs[k].frameNumber < fs[k + 1].frameNumber
            /\ \A k \in 1..Len(fs) :
                    fs[k].status =
                        IF fs[k].frameNumber <= job.frames.completed THEN "completed"
                        ELSE IF fs[k].frameNumber = job.frames.completed + 1
                                /\ job.status = "rendering" THEN "rendering"
                        ELSE "pending"
            /\ (job.frames = Frames(5, 2) /\ job.status = "rendering" /\ ~call.filter.set)
                    => [k \in 1..5 |-> fs[k].status] =
                        <<"completed", "completed", "rendering", "pending", "pending">>

\* Frame 3 of 5 asked for as "03", together with a frame that does not exist.
C15_Witness ==
    /\ call.op = "getFrameStatuses"
    /\ call.answer.success
    /\ call.answer.data.status = "rendering"
    /\ call.answer.data.frames = Frames(5, 2)
    /\ call.filter = Given(<< <<"0", "3">>, <<"9">> >>)
    /\ ret.frames = <<[frameNumber |-> 3, status |-> "rendering"]>>

----------------------------------------------------------------------------
(* retryJob *)

\* C16: retryJob first reads the original job; when that read fails or
\* carries no job it returns a failure, with the message of the client or,
\* without one, 'Original job not found', and makes no other request;
\* otherwise it makes exactly one createJob request tagged with retryOf:
\* jobId and with retryFailedFramesOnly as passed.  No request other than
\* that read and that createJob is made.
C16_RetryReadsThenCreates ==
    call.op = "retryJob" =>
        LET original == call.original
            missing == ~original.success \/ ~original.hasData
        IN  /\ requests[1] = [method |-> "getJob", jobId |-> call.jobId]
            /\ missing =>
                    /\ Len(requests) = 1
                    /\ ~ret.success
                    /\ ret.error = IF original.error \in {"e1", "e2"} THEN original.error
                                   ELSE "Original job not found"
            /\ ~missing =>
                    /\ Len(requests) = 2
                    /\ requests[2].method = "createJob"
                    /\ requests[2].params.metadata.retryOf = call.jobId
                    /\ requests[2].params.metadata.retryFailedFramesOnly =
                            call.options.retryFailedFramesOnly

\* The read succeeded without a job record: nothing is created.
C16_Witness ==
    /\ call.op = "retryJob"
    /\ call.jobId = "jobB"
    /\ call.original = EmptyAnswer
    /\ requests = <<GetJob("jobB")>>
    /\ ret.error = "Original job not found"

====
